---------------------------- MODULE Spec2Model ----------------------------
(***************************************************************************)
(* A model of src/whisper_gui.py: the model cache of LocalWhisperGUI       *)
(* (load_model), transcribe_audio, the Gradio handlers transcribe_handler  *)
(* and export_handler, and the text codec they share (the report that      *)
(* transcribe_handler writes and export_handler reads back).               *)
(*                                                                         *)
(* Text is a sequence of symbols.  A symbol is a one-character string, or  *)
(* a fixed phrase of the program that no operation of the program looks    *)
(* inside ("Detected Language", "Processed", a model name, an exception    *)
(* message).  Every character the program tests, slices or splits on       *)
(* (F I L E : * - space, the line break, the digits) is a symbol of its    *)
(* own, so startswith, in, split, strip and slicing are modelled by what   *)
(* they do on the characters.                                              *)
(***************************************************************************)
EXTENDS Integers, Sequences, FiniteSets, TLC

VARIABLES
    model,        \* self.model: the loaded handle, or NoModel
    model_name,   \* self.model_name
    calls,        \* history: the calls made on the core so far, oldest first
    phase,        \* where the presentation layer is: "idle", "reported", "exported"
    job,          \* history: the inputs of the last transcribe_handler call
    events,       \* history: progress notifications and recognizer steps of that call
    out,          \* the transcription_output textbox
    export,       \* what export_handler did with the textbox
    given,        \* history: the results handed to the formatter (SpecCodec)
    parser,       \* export_handler's parsing loop: lines, position, results, current_file
    procs         \* the concurrent callers of the core: position and locals of each

vars ==
    <<model, model_name, calls, phase, job, events, out, export, given,
      parser, procs>>

----------------------------------------------------------------------------
(* Bounds of the model.                                                    *)

MaxCalls == 3      \* calls on the core in one behaviour of Spec
MaxFiles == 3      \* uploaded files in one transcribe_handler call
MaxResults == 2    \* results in a list given to the formatter in SpecCodec
MaxLines == 4      \* lines of a text given to export_handler in SpecParse
MaxCallers == 2    \* callers of the core at the same time in SpecConc

----------------------------------------------------------------------------
(* Text primitives.                                                        *)

NL == "\n"
SP == " "

Whitespace == {SP, NL, "\t"}

Repeat(c, n) == [i \in 1..n |-> c]

DropFirst(s, n) == IF n >= Len(s) THEN <<>> ELSE SubSeq(s, n + 1, Len(s))

StartsWith(s, p) == Len(s) >= Len(p) /\ SubSeq(s, 1, Len(p)) = p

Contains(s, p) == \E i \in 0..(Len(s) - Len(p)) : SubSeq(s, i + 1, i + Len(p)) = p

FirstIndex(s, c) == CHOOSE i \in 1..Len(s) : s[i] = c /\ \A j \in 1..(i - 1) : s[j] # c

HasSymbol(s, c) == \E i \in 1..Len(s) : s[i] = c

(* s.split(c): the pieces of s between the occurrences of the symbol c.    *)
Split(s, c) ==
    LET cuts == {i \in 1..Len(s) : s[i] = c} \cup {0, Len(s) + 1}
        cut == [k \in 1..Cardinality(cuts) |->
                   CHOOSE x \in cuts : Cardinality({y \in cuts : y < x}) = k - 1]
    IN  [k \in 1..(Cardinality(cuts) - 1) |-> SubSeq(s, cut[k] + 1, cut[k + 1] - 1)]

SplitOnceAfter(s, c) == IF HasSymbol(s, c) THEN DropFirst(s, FirstIndex(s, c)) ELSE <<>>

RECURSIVE LStrip(_)
LStrip(s) == IF s # <<>> /\ Head(s) \in Whitespace THEN LStrip(Tail(s)) ELSE s

RECURSIVE RStrip(_)
RStrip(s) ==
    IF s # <<>> /\ s[Len(s)] \in Whitespace THEN RStrip(SubSeq(s, 1, Len(s) - 1)) ELSE s

Strip(s) == RStrip(LStrip(s))

Truthy(s) == s # <<>>

Digit(d) == CASE d = 0 -> "0" [] d = 1 -> "1" [] d = 2 -> "2" [] d = 3 -> "3"
              [] d = 4 -> "4" [] d = 5 -> "5" [] d = 6 -> "6" [] d = 7 -> "7"
              [] d = 8 -> "8" [] d = 9 -> "9"

RECURSIVE FormatInt(_)
FormatInt(n) == IF n < 10 THEN <<Digit(n)>> ELSE FormatInt(n \div 10) \o <<Digit(n % 10)>>

(* f"{x:.2f}" of a time given in milliseconds: rounded to the nearest      *)
(* hundredth (a tie goes to the even hundredth), two decimals always.      *)
RoundHundredths(ms) ==
    LET q == ms \div 10
        r == ms % 10
    IN  IF r > 5 \/ (r = 5 /\ q % 2 = 1) THEN q + 1 ELSE q

Format2f(ms) ==
    LET h == RoundHundredths(ms)
    IN  FormatInt(h \div 100) \o <<".", Digit((h % 100) \div 10), Digit(h % 10)>>

(* os.path.basename: what follows the last "/".                            *)
Basename(path) == LET parts == Split(path, "/") IN parts[Len(parts)]

----------------------------------------------------------------------------
(* Fixed texts of the program.                                             *)

OkMark == "<ok>"
ErrMark == "<x>"

FILE_MARK == <<"F", "I", "L", "E", ":">>
DelimWidth == 50
Delimiter == Repeat("-", DelimWidth)
Stars == <<"*", "*">>

NoneTypeErrorText == <<"'NoneType' object has no attribute 'transcribe'">>
LoadErrorText == <<"unknown model">>
RecErrorText == <<"audio file not found">>

TranscriptionErrorPrefix == <<ErrMark, SP, "Transcription error", ":", SP>>
NoInputText == <<ErrMark, SP, "Please upload audio files or record audio">>
SummaryPrefix == <<OkMark, SP, "Processed">>

----------------------------------------------------------------------------
(* The model cache: LocalWhisperGUI.load_model.                            *)

ModelIds == {"base", "small"}

NoModel == [loaded |-> FALSE, builtFor |-> "none"]
Handle(name) == [loaded |-> TRUE, builtFor |-> name]

(* whisper.load_model(name): returns a handle built for name, or raises.   *)
BuildOutcomes == {[ok |-> TRUE, msg |-> <<>>], [ok |-> FALSE, msg |-> LoadErrorText]}

NeedsLoadAlways(m, mn, name) == TRUE

NeedsLoad(m, mn, name) == m = NoModel \/ mn # name

LoadModel(m, mn, name, b) ==
    IF NeedsLoad(m, mn, name)
    THEN IF b.ok
         THEN [model |-> Handle(name), model_name |-> name, built |-> TRUE,
               status |-> [kind |-> "loaded", name |-> name, msg |-> <<>>]]
         ELSE [model |-> m, model_name |-> name, built |-> TRUE,
               status |-> [kind |-> "error", name |-> name, msg |-> b.msg]]
    ELSE [model |-> m, model_name |-> mn, built |-> FALSE,
          status |-> [kind |-> "already", name |-> name, msg |-> <<>>]]


----------------------------------------------------------------------------
(* LocalWhisperGUI.transcribe_audio.                                       *)

(* The language argument: "" stands for None (or an empty string).         *)
NoLanguage == ""
AutoDetect == "Auto-detect"
Languages == {NoLanguage, AutoDetect, "en"}

(* The keyword options handed to model.transcribe: the "language" key is   *)
(* present only when hasLanguage is TRUE.                                  *)
OptionsAlways(language) ==
    [task |-> "transcribe", hasLanguage |-> TRUE, language |-> language]

Options(language) ==
    IF language # NoLanguage /\ language # AutoDetect
    THEN [task |-> "transcribe", hasLanguage |-> TRUE, language |-> language]
    ELSE [task |-> "transcribe", hasLanguage |-> FALSE, language |-> NoLanguage]

NoOptions == [task |-> "none", hasLanguage |-> FALSE, language |-> NoLanguage]

(* What model.transcribe does: it raises, or it returns a result with a    *)
(* text, a detected language and, when hasSegments, the end time (in       *)
(* milliseconds) of the last segment.                                      *)
Raise(msg) ==
    [kind |-> "raise", msg |-> msg, text |-> <<>>, language |-> <<>>,
     hasSegments |-> FALSE, end |-> 0]
Result(text, language, hasSegments, end) ==
    [kind |-> "ok", msg |-> <<>>, text |-> text, language |-> language,
     hasSegments |-> hasSegments, end |-> end]

(* Lines 103-108: the detailed output of one transcription.                *)
Details(transcription, detected_language, name, hasSegments, end) ==
    Stars \o <<"Transcription", ":">> \o Stars \o <<NL>> \o transcription \o <<NL, NL>>
    \o Stars \o <<"Detected Language", ":">> \o Stars \o <<SP>> \o detected_language \o <<NL>>
    \o Stars \o <<"Model Used", ":">> \o Stars \o <<SP, name, NL>>
    \o (IF hasSegments
        THEN Stars \o <<"Duration", ":">> \o Stars \o <<SP>> \o Format2f(end)
             \o <<SP, "seconds", NL>>
        ELSE <<>>)

(* Lines 112-114: the except clause of transcribe_audio.                   *)
OnExceptionRaise(msg) ==
    [transcription |-> <<>>, details |-> <<>>, propagated |-> TRUE]

OnException(msg) ==
    [transcription |-> <<>>, details |-> TranscriptionErrorPrefix \o msg,
     propagated |-> FALSE]

(* b is what whisper.load_model does if it is called, oc what              *)
(* model.transcribe does if it is called.                                  *)
TranscribeAudio(m, mn, audio_path, language, name, b, oc) ==
    LET need == m = NoModel \/ mn # name
        ld == IF need THEN LoadModel(m, mn, name, b)
              ELSE [model |-> m, model_name |-> mn, built |-> FALSE,
                    status |-> [kind |-> "none", name |-> name, msg |-> <<>>]]
        base == [model |-> ld.model, model_name |-> ld.model_name,
                 built |-> ld.built, status |-> ld.status,
                 invoked |-> FALSE, used |-> NoModel, options |-> NoOptions,
                 raised |-> FALSE]
        ret == IF ~ld.model.loaded THEN OnException(NoneTypeErrorText)
               ELSE IF oc.kind = "raise" THEN OnException(oc.msg)
               ELSE [transcription |-> oc.text,
                     details |-> Details(oc.text, oc.language, name,
                                         oc.hasSegments, oc.end),
                     propagated |-> FALSE]
    IN  [base EXCEPT !.invoked = ld.model.loaded,
                     !.used = ld.model,
                     !.options = IF ld.model.loaded THEN Options(language) ELSE NoOptions,
                     !.raised = ld.model.loaded /\ oc.kind = "raise"]
        @@ ret

----------------------------------------------------------------------------
(* transcribe_handler: the job run when "Transcribe Audio" is clicked.     *)

(* A progress notification: done of total items are behind the job.        *)
(* progress(0.0) is Progress(0, 1), progress(1.0) is Progress(1, 1); the   *)
(* progress.tqdm wrapper notifies Progress(i - 1, n) when it hands out     *)
(* item i of n.  Whether the wrapper (Gradio's, not this program's) also   *)
(* notifies Progress(n, n) when the list is exhausted is left open: the    *)
(* handler's tick says whether it does.                                    *)
Progress(done, total) ==
    [type |-> "progress", item |-> 0, done |-> done, total |-> total,
     handle |-> NoModel, options |-> NoOptions]
Step(type, i, h, o) ==
    [type |-> type, item |-> i, done |-> 0, total |-> 0, handle |-> h, options |-> o]

(* What one transcribe_audio call (item i, result r) adds to the events.   *)
CallEvents(i, r) ==
    <<Step("begin", i, NoModel, NoOptions)>>
    \o (IF r.invoked THEN <<Step("recognize", i, r.used, r.options)>> ELSE <<>>)
    \o <<Step("end", i, NoModel, NoOptions)>>

(* Lines 297-299 and 312-314: a single item between two notifications.     *)
SingleEvents(r) == <<Progress(0, 1)>> \o CallEvents(1, r) \o <<Progress(1, 1)>>

(* Lines 319-321: one turn of the loop over progress.tqdm(audio_paths).    *)
LoopEventsLate(i, n, r) == CallEvents(i, r) \o <<Progress(i - 1, n)>>

LoopEvents(i, n, r) == <<Progress(i - 1, n)>> \o CallEvents(i, r)

(* Line 322: "if transcription:".                                          *)
Keep(r) == Truthy(r.transcription)

(* Lines 323-327.                                                          *)
ResultOf(path, r) ==
    [filename |-> Basename(path), transcription |-> r.transcription,
     details |-> r.details]

(* Line 330.                                                               *)
SummaryCountAll(results, audio_paths) == Len(audio_paths)

SummaryCount(results, audio_paths) == Len(results)

SummaryLine(n) ==
    SummaryPrefix \o <<SP>> \o FormatInt(n) \o <<SP, "files successfully", NL, NL>>

(* Lines 333-335.                                                          *)
Section(result) ==
    FILE_MARK \o <<SP>> \o result.filename \o <<NL>>
    \o result.details \o <<NL, NL>>
    \o Delimiter \o <<NL, NL>>

RECURSIVE Sections(_)
Sections(results) ==
    IF results = <<>> THEN <<>> ELSE Section(Head(results)) \o Sections(Tail(results))

(* Lines 329-337.                                                          *)
FormatBatch(results, audio_paths) ==
    SummaryLine(SummaryCount(results, audio_paths)) \o Sections(results)

(* Lines 318-327: the loop, from item i on.  acc holds the cache, the      *)
(* per-item returns, the results kept and the events so far.               *)
RECURSIVE RunItems(_, _, _, _, _, _, _)
RunItems(acc, audio_paths, language, name, bs, ocs, i) ==
    IF i > Len(audio_paths) THEN acc
    ELSE LET r == TranscribeAudio(acc.model, acc.model_name, audio_paths[i],
                                  language, name, bs[i], ocs[i])
         IN  RunItems([model |-> r.model, model_name |-> r.model_name,
                       items |-> Append(acc.items, r),
                       results |-> IF Keep(r)
                                   THEN Append(acc.results, ResultOf(audio_paths[i], r))
                                   ELSE acc.results,
                       events |-> acc.events \o LoopEvents(i, Len(audio_paths), r)],
                      audio_paths, language, name, bs, ocs, i + 1)

(* The path of a microphone recording.                                     *)
MicPath == <<"/", "tmp", "/", "gradio", "/", "audio", ".", "wav">>

(* Line 303: "if not audio_files:".                                        *)
NoFilesNever(audio_files) == FALSE

NoFiles(audio_files) == audio_files = <<>>

(* Line 319: what progress.tqdm adds when the loop ends.                   *)
LoopEnd(n, tick) == IF tick THEN <<Progress(n, n)>> ELSE <<>>

(* The whole handler.  hasMic: a recording was made (mic_audio is not      *)
(* None); bs[i] and ocs[i]: what whisper.load_model and model.transcribe   *)
(* do if they are called for item i.                                       *)
TranscribeHandler(m, mn, audio_files, hasMic, language, name, bs, ocs, tick) ==
    IF hasMic
    THEN LET r == TranscribeAudio(m, mn, MicPath, language, name, bs[1], ocs[1])
         IN  [kind |-> "mic", model |-> r.model, model_name |-> r.model_name,
              items |-> <<r>>, results |-> <<>>, events |-> SingleEvents(r),
              out |-> r.details]
    ELSE IF NoFiles(audio_files)
    THEN [kind |-> "empty", model |-> m, model_name |-> mn,
          items |-> <<>>, results |-> <<>>, events |-> <<>>, out |-> NoInputText]
    ELSE IF Len(audio_files) = 1
    THEN LET r == TranscribeAudio(m, mn, audio_files[1], language, name, bs[1], ocs[1])
         IN  [kind |-> "single", model |-> r.model, model_name |-> r.model_name,
              items |-> <<r>>, results |-> <<>>, events |-> SingleEvents(r),
              out |-> r.details]
    ELSE LET acc == RunItems([model |-> m, model_name |-> mn, items |-> <<>>,
                              results |-> <<>>, events |-> <<>>],
                             audio_files, language, name, bs, ocs, 1)
         IN  [kind |-> "multi", model |-> acc.model, model_name |-> acc.model_name,
              items |-> acc.items, results |-> acc.results,
              events |-> acc.events \o LoopEnd(Len(audio_files), tick),
              out |-> FormatBatch(acc.results, audio_files)]

----------------------------------------------------------------------------
(* export_handler: the textbox read back into records.                     *)

(* Line 355: the text is a batch report.                                   *)
IsBatchText(text) == Contains(text, FILE_MARK) /\ Contains(text, Delimiter)

(* current_file, a dict: keys is the set of keys present.                  *)
EmptyDict ==
    [keys |-> {}, filename |-> <<>>, language |-> <<>>, duration |-> <<>>,
     transcription |-> <<>>]
Put(d, k, v) == [d EXCEPT !.keys = @ \cup {k}, ![k] = v]
Get(d, k) == IF k \in d.keys THEN d[k] ELSE <<>>
DictTruthy(d) == d.keys # {}

LanguageLabel == Stars \o <<"Detected Language", ":">>
DurationLabel == Stars \o <<"Duration", ":">>

(* Lines 362-365: a line that starts with "FILE:".  A non-empty            *)
(* current_file is appended to results first; the new current_file holds   *)
(* the file name and nothing else.                                         *)
OnFileLineKeepFields(st, line) ==
    LET cf == st.current_file
    IN  [results |-> IF DictTruthy(cf) THEN Append(st.results, cf) ELSE st.results,
         current_file |-> Put(cf, "filename", Strip(DropFirst(line, 5)))]

OnFileLine(st, line) ==
    LET cf == st.current_file
    IN  [results |-> IF DictTruthy(cf) THEN Append(st.results, cf) ELSE st.results,
         current_file |-> Put(EmptyDict, "filename", Strip(DropFirst(line, 5)))]

(* Lines 373-380: a line that starts with the delimiter.                   *)
OnDelimiterLineKeepOpen(st) ==
    LET cf == st.current_file
    IN  IF DictTruthy(cf)
        THEN [results |->
                  Append(st.results,
                         IF "transcription" \in cf.keys THEN cf
                         ELSE Put(cf, "transcription", <<>>)),
              current_file |-> cf]
        ELSE st

OnDelimiterLine(st) ==
    LET cf == st.current_file
    IN  IF DictTruthy(cf)
        THEN [results |->
                  Append(st.results,
                         IF "transcription" \in cf.keys THEN cf
                         ELSE Put(cf, "transcription", <<>>)),
              current_file |-> EmptyDict]
        ELSE st

(* Lines 362-386: one turn of the loop over the lines.                     *)
ParseLine(st, line) ==
    LET cf == st.current_file
    IN  IF StartsWith(line, FILE_MARK)
        THEN OnFileLine(st, line)
        ELSE IF StartsWith(line, LanguageLabel)
        THEN [st EXCEPT !.current_file = Put(cf, "language", Strip(SplitOnceAfter(line, ":")))]
        ELSE IF StartsWith(line, DurationLabel)
        THEN [st EXCEPT !.current_file = Put(cf, "duration", Strip(SplitOnceAfter(line, ":")))]
        ELSE IF StartsWith(line, SummaryPrefix)
        THEN st
        ELSE IF StartsWith(line, Delimiter)
        THEN OnDelimiterLine(st)
        ELSE IF DictTruthy(cf) /\ ~StartsWith(line, Stars) /\ Truthy(Strip(line))
        THEN [st EXCEPT !.current_file =
                 Put(cf, "transcription", Get(cf, "transcription") \o line \o <<NL>>)]
        ELSE st

(* The loop of lines 361-386 over lines[lo..hi], from parser state st;     *)
(* the first half of the lines is parsed before the second is looked at.   *)
RECURSIVE ParseLines(_, _, _, _)
ParseLines(st, lines, lo, hi) ==
    IF lo > hi THEN st
    ELSE IF lo = hi THEN ParseLine(st, lines[lo])
    ELSE LET mid == (lo + hi) \div 2
             left == ParseLines(st, lines, lo, mid)
         IN  CASE Len(left.results) >= 0 -> ParseLines(left, lines, mid + 1, hi)

(* Lines 390-396: one row of the table.                                    *)
Row(result) ==
    [filename |-> Get(result, "filename"),
     transcription |-> Strip(Get(result, "transcription")),
     language |-> Get(result, "language"),
     duration |-> Get(result, "duration")]

(* Lines 357-396.                                                          *)
ParseBatch(text) ==
    LET lines == Split(text, NL)
        st == ParseLines([results |-> <<>>, current_file |-> EmptyDict],
                         lines, 1, Len(lines))
    IN  [i \in DOMAIN st.results |-> Row(st.results[i])]

----------------------------------------------------------------------------
(* export_transcription and export_batch_results: what a call returns and  *)
(* what it leaves on the filesystem (directories made by tempfile.mkdtemp, *)
(* files made by open, and the text written to the file).                  *)

(* The outcomes of the filesystem calls inside the try block: both work,   *)
(* tempfile.mkdtemp raises, or open raises after the directory was made.   *)
IoOutcomes == {"ok", "mkdtemp raises", "open raises"}

NoFile == [returned |-> "none", dirs |-> 0, files |-> 0, content |-> <<>>]

(* Lines 156-168 and 179-196: the try block around mkdtemp, open and the   *)
(* writes; the except branch prints and returns None.                      *)
WriteFile(content, io) ==
    CASE io = "ok" ->
            [returned |-> "path", dirs |-> 1, files |-> 1, content |-> content]
      [] io = "mkdtemp raises" -> NoFile
      [] io = "open raises" ->
            [returned |-> "none", dirs |-> 1, files |-> 0, content |-> <<>>]

(* Lines 160-162: the heading, the rule of 50 "=" and the transcription.   *)
(* The date in the heading is the symbol "<now>".                          *)
TextFileContent(transcription) ==
    <<"Transcription", SP, "-", SP, "<now>", NL>>
    \o Repeat("=", DelimWidth) \o <<NL, NL>> \o transcription

(* Lines 147-168.                                                          *)
ExportTranscription(transcription, io) ==
    IF ~Truthy(transcription) THEN NoFile
    ELSE WriteFile(TextFileContent(transcription), io)

(* Line 188: str.replace('"', '""'), one half of the text after the       *)
(* other.                                                                  *)
RECURSIVE DoubleQuotes(_)
DoubleQuotes(s) ==
    IF s = <<>> THEN <<>>
    ELSE IF Len(s) = 1 THEN (IF s[1] = "\"" THEN <<"\"", "\"">> ELSE s)
    ELSE LET mid == Len(s) \div 2
         IN  DoubleQuotes(SubSeq(s, 1, mid))
             \o DoubleQuotes(SubSeq(s, mid + 1, Len(s)))

(* Line 189: one line of the CSV file; only the transcription has its      *)
(* quotes doubled.                                                         *)
CsvLine(row) ==
    <<"\"">> \o row.filename \o <<"\"", ",", "\"">>
    \o DoubleQuotes(row.transcription) \o <<"\"", ",", "\"">>
    \o row.language \o <<"\"", ",", "\"">> \o row.duration \o <<"\"", NL>>

CsvHeader == <<"Filename,Transcription,Language,Duration", NL>>

RECURSIVE CsvLines(_, _)
CsvLines(rows, i) ==
    IF i > Len(rows) THEN <<>> ELSE CsvLine(rows[i]) \o CsvLines(rows, i + 1)

(* Lines 170-196.  The guard of line 172 stops a None and an object with a *)
(* true .empty attribute; a list has no such attribute, so every list,     *)
(* the empty one included, goes on to the try block.                       *)
ExportBatchResults(isNone, batch_results, io) ==
    IF isNone THEN NoFile
    ELSE WriteFile(CsvHeader \o CsvLines(batch_results, 1), io)

(* Lines 351-401: "none" returns None, "batch" goes to                     *)
(* export_batch_results with the rows, "single" to export_transcription    *)
(* with the text.                                                          *)
ExportHandler(text, io) ==
    IF ~Truthy(text)
    THEN [class |-> "none", rows |-> <<>>, text |-> <<>>, file |-> NoFile]
    ELSE IF IsBatchText(text)
    THEN LET df_data == ParseBatch(text)
         IN  [class |-> "batch", rows |-> df_data, text |-> <<>>,
              file |-> ExportBatchResults(FALSE, df_data, io)]
    ELSE [class |-> "single", rows |-> <<>>, text |-> text,
          file |-> ExportTranscription(text, io)]

----------------------------------------------------------------------------
(* Spec: calls on the core, one after the other (load_model_handler and    *)
(* transcribe_audio), with the history of the calls.                       *)

NoJob ==
    [kind |-> "none", files |-> <<>>, name |-> "none", language |-> NoLanguage,
     items |-> <<>>, results |-> <<>>]
NoExport == [class |-> "none", rows |-> <<>>, text |-> <<>>, file |-> NoFile]

NoParser ==
    [lines |-> <<>>, pos |-> 0, results |-> <<>>, current_file |-> EmptyDict,
     last |-> [line |-> <<>>, results |-> <<>>, current_file |-> EmptyDict]]

NoProcs == <<>>

NoneGiven == [mode |-> "none", R |-> <<>>]

AudioPath == <<"/", "tmp", "/", "a", ".", "wav">>

CoreOutcomes ==
    {Raise(RecErrorText),
     Result(<<SP, "hello">>, <<"e", "n">>, TRUE, 1230)}

(* LocalWhisperGUI.__init__: model None, model_name "base", load_model().  *)
Init ==
    /\ \E b \in BuildOutcomes :
          LET ld == LoadModel(NoModel, "base", "base", b)
          IN  model = ld.model /\ model_name = ld.model_name
    /\ calls = <<>>
    /\ phase = "idle"
    /\ job = NoJob
    /\ events = <<>>
    /\ out = <<>>
    /\ export = NoExport
    /\ parser = NoParser
    /\ procs = NoProcs
    /\ given = NoneGiven

Cache(m, mn) == [model |-> m, model_name |-> mn]

LoadModelHandler(name) ==
    /\ Len(calls) < MaxCalls
    /\ \E b \in BuildOutcomes :
          LET ld == LoadModel(model, model_name, name, b)
          IN  /\ model' = ld.model
              /\ model_name' = ld.model_name
              /\ calls' = Append(calls,
                    [op |-> "load", name |-> name,
                     pre |-> Cache(model, model_name),
                     post |-> Cache(ld.model, ld.model_name),
                     built |-> ld.built, status |-> ld.status,
                     invoked |-> FALSE, used |-> NoModel, raised |-> FALSE,
                     msg |-> <<>>,
                     transcription |-> <<>>, details |-> <<>>,
                     propagated |-> FALSE])
    /\ UNCHANGED <<phase, job, events, out, export, given, parser, procs>>

TranscribeAudioCall(language, name) ==
    /\ Len(calls) < MaxCalls
    /\ \E b \in BuildOutcomes, oc \in CoreOutcomes :
          LET r == TranscribeAudio(model, model_name, AudioPath, language, name, b, oc)
          IN  /\ model' = r.model
              /\ model_name' = r.model_name
              /\ calls' = Append(calls,
                    [op |-> "transcribe", name |-> name,
                     pre |-> Cache(model, model_name),
                     post |-> Cache(r.model, r.model_name),
                     built |-> r.built, status |-> r.status,
                     invoked |-> r.invoked, used |-> r.used, raised |-> r.raised,
                     msg |-> IF r.raised THEN oc.msg ELSE <<>>,
                     transcription |-> r.transcription, details |-> r.details,
                     propagated |-> r.propagated])
    /\ UNCHANGED <<phase, job, events, out, export, given, parser, procs>>

Next ==
    \/ \E name \in ModelIds : LoadModelHandler(name)
    \/ \E language \in Languages, name \in ModelIds : TranscribeAudioCall(language, name)

Spec == Init /\ [][Next]_vars

----------------------------------------------------------------------------
(* SpecBatch: the presentation layer clicks "Transcribe Audio", then       *)
(* clears; the cache lives on from job to job.                             *)

FilePath(i) == <<"/", "tmp", "/", "up", Digit(i), "/", "f", Digit(i), ".", "wav">>
Uploads(n) == [i \in 1..n |-> FilePath(i)]

En == <<"e", "n">>
Pt == <<"p", "t">>

BatchOutcomes ==
    {Raise(RecErrorText),
     Result(<<>>, En, FALSE, 0),
     Result(<<SP, "hello">>, En, TRUE, 1230),
     Result(FILE_MARK \o <<SP, "x">>, Pt, TRUE, 2500)}

TranscribeClick ==
    /\ phase = "idle"
    /\ \E n \in 0..MaxFiles, hasMic \in BOOLEAN, language \in Languages, name \in ModelIds :
          LET k == IF hasMic THEN 1 ELSE n
              \* whisper.load_model is called for the items up to the first one
              \* that finds a handle recorded for name: for none of them when
              \* the cache holds name, for the first only when it holds another
              \* handle.  It fails for the first j of them.
              loads == IF ~model.loaded THEN k
                       ELSE IF model_name # name /\ k > 0 THEN 1 ELSE 0
          IN  \E j \in 0..loads, ocs \in [1..k -> BatchOutcomes], tick \in BOOLEAN :
                 LET bs == [i \in 1..k |-> CHOOSE b \in BuildOutcomes : b.ok = (i > j)]
                     h == TranscribeHandler(model, model_name, Uploads(n), hasMic,
                                            language, name, bs, ocs, tick)
                 IN  /\ model' = h.model
                     /\ model_name' = h.model_name
                     /\ job' = [kind |-> h.kind, files |-> Uploads(n), name |-> name,
                                language |-> language, items |-> h.items,
                                results |-> h.results]
                     /\ events' = h.events
                     /\ out' = h.out
    /\ phase' = "reported"
    /\ UNCHANGED <<calls, export, given, parser, procs>>

ExportClick ==
    /\ phase = "reported"
    /\ \E io \in IoOutcomes : export' = ExportHandler(out, io)
    /\ phase' = "exported"
    /\ UNCHANGED <<model, model_name, calls, job, events, out, given, parser, procs>>

(* clear_btn and clear_output_btn: the textbox is emptied.                 *)
Clear ==
    /\ phase \in {"reported", "exported"}
    /\ out' = <<>>
    /\ phase' = "idle"
    /\ job' = NoJob
    /\ events' = <<>>
    /\ export' = NoExport
    /\ UNCHANGED <<model, model_name, calls, given, parser, procs>>

NextBatch == TranscribeClick \/ Clear

SpecBatch == Init /\ [][NextBatch]_vars

----------------------------------------------------------------------------
(* SpecCodec: the formatter and the parser as functions.  A list of        *)
(* transcription results is given; it is rendered as transcribe_audio and  *)
(* transcribe_handler render it (as one report without a file name, or as  *)
(* a batch report), and export_handler reads the text back.                *)

TwoLines == <<SP, "two", NL, "lines", SP>>
MidLineMarkers == <<"see", SP>> \o FILE_MARK \o <<SP, "x", SP>> \o Delimiter

CodecNames == {<<"a", ".", "wav">>, <<"b", ".", "wav">>}
CodecTexts == {<<"hello">>, <<"world">>, TwoLines, MidLineMarkers}
CodecTimings ==
    {[language |-> En, hasSegments |-> TRUE, end |-> 1230],
     [language |-> En, hasSegments |-> TRUE, end |-> 2500],
     [language |-> Pt, hasSegments |-> FALSE, end |-> 0]}

(* A transcription result: what lines 99-108 and 323-327 hold of one item. *)
TranscriptionResults ==
    {[filename |-> f, text |-> t, language |-> g.language,
      hasSegments |-> g.hasSegments, end |-> g.end, name |-> "base"] :
        f \in CodecNames, t \in CodecTexts, g \in CodecTimings}

FormatSingle(r) == Details(r.text, r.language, r.name, r.hasSegments, r.end)

BatchResults(R) ==
    [i \in DOMAIN R |->
        [filename |-> R[i].filename, transcription |-> R[i].text,
         details |-> FormatSingle(R[i])]]

InitCodec ==
    /\ model = Handle("base")
    /\ model_name = "base"
    /\ calls = <<>>
    /\ phase = "idle"
    /\ job = NoJob
    /\ events = <<>>
    /\ out = <<>>
    /\ export = NoExport
    /\ parser = NoParser
    /\ procs = NoProcs
    /\ \/ \E n \in 0..MaxResults : \E R \in [1..n -> TranscriptionResults] :
             given = [mode |-> "batch", R |-> R]
       \/ \E r \in TranscriptionResults :
             given = [mode |-> "single", R |-> <<r>>]

FormatBatchStep ==
    /\ phase = "idle"
    /\ given.mode = "batch"
    /\ out' = FormatBatch(BatchResults(given.R), given.R)
    /\ phase' = "reported"
    /\ UNCHANGED <<model, model_name, calls, job, events, export, given, parser, procs>>

FormatSingleStep ==
    /\ phase = "idle"
    /\ given.mode = "single"
    /\ out' = FormatSingle(given.R[1])
    /\ phase' = "reported"
    /\ UNCHANGED <<model, model_name, calls, job, events, export, given, parser, procs>>

NextCodec == FormatBatchStep \/ FormatSingleStep \/ ExportClick

SpecCodec == InitCodec /\ [][NextCodec]_vars

----------------------------------------------------------------------------
(* SpecExport: export_transcription and export_batch_results called on     *)
(* their own, with a text or a table of rows (None, the empty list and     *)
(* the empty text among them).                                             *)

ExportTexts == {<<>>} \cup {FormatSingle(r) : r \in TranscriptionResults}

ExportRows ==
    {[filename |-> <<"a", ".", "wav">>, transcription |-> <<"hello">>,
      language |-> En, duration |-> Format2f(1230)],
     [filename |-> <<"b", ".", "wav">>,
      transcription |-> <<"say", SP, "\"", "hi", "\"">>,
      language |-> Pt, duration |-> <<>>],
     [filename |-> <<"b", ".", "wav">>, transcription |-> <<>>,
      language |-> <<>>, duration |-> <<>>]}

InitExport ==
    /\ model = Handle("base")
    /\ model_name = "base"
    /\ calls = <<>>
    /\ phase = "idle"
    /\ job = NoJob
    /\ events = <<>>
    /\ export = NoExport
    /\ parser = NoParser
    /\ procs = NoProcs
    /\ \/ \E t \in ExportTexts :
             out = t /\ given = [mode |-> "transcription", R |-> <<>>]
       \/ \E n \in 0..MaxResults : \E rows \in [1..n -> ExportRows] :
             out = <<>> /\ given = [mode |-> "batch_results", R |-> rows]
       \/ out = <<>> /\ given = [mode |-> "None", R |-> <<>>]

ExportTranscriptionCall ==
    /\ phase = "idle"
    /\ given.mode = "transcription"
    /\ \E io \in IoOutcomes :
          export' = [class |-> "single", rows |-> <<>>, text |-> out,
                     file |-> ExportTranscription(out, io)]
    /\ phase' = "exported"
    /\ UNCHANGED <<model, model_name, calls, job, events, out, given, parser, procs>>

ExportBatchResultsCall ==
    /\ phase = "idle"
    /\ given.mode \in {"batch_results", "None"}
    /\ \E io \in IoOutcomes :
          export' = [class |-> "batch", rows |-> given.R, text |-> <<>>,
                     file |-> ExportBatchResults(given.mode = "None",
                                                 given.R, io)]
    /\ phase' = "exported"
    /\ UNCHANGED <<model, model_name, calls, job, events, out, given, parser, procs>>

NextExport == ExportTranscriptionCall \/ ExportBatchResultsCall

SpecExport == InitExport /\ [][NextExport]_vars

----------------------------------------------------------------------------
(* SpecParse: export_handler on a text made of a few lines, the loop of    *)
(* lines 361-386 taken one turn at a time.  parser holds the list of       *)
(* lines, the position of the next line, results and current_file, and in  *)
(* last the line of the turn just taken with results and current_file as   *)
(* they were before it.                                                    *)

FileLineA == FILE_MARK \o <<SP, "a", ".", "wav">>
FileLineB == FILE_MARK \o <<SP, "b", ".", "wav">>
LanguageLine == LanguageLabel \o Stars \o <<SP, "e", "n">>
DurationLine == DurationLabel \o Stars \o <<SP>> \o Format2f(1230) \o <<SP, "seconds">>
TextLine == <<"hello">>
BoldLine == Stars \o <<"note">> \o Stars
BlankLine == <<>>
SummaryText == SummaryPrefix \o <<SP>> \o FormatInt(1) \o <<SP, "files successfully">>

LineKinds ==
    {FileLineA, FileLineB, LanguageLine, DurationLine, Delimiter, TextLine,
     BoldLine, BlankLine, SummaryText, MidLineMarkers}

(* "\n".join(lines), what str.split("\n") takes apart again.               *)
RECURSIVE JoinLines(_)
JoinLines(lines) ==
    IF lines = <<>> THEN <<>>
    ELSE IF Len(lines) = 1 THEN lines[1]
    ELSE lines[1] \o <<NL>> \o JoinLines(Tail(lines))

InitParse ==
    /\ model = Handle("base")
    /\ model_name = "base"
    /\ calls = <<>>
    /\ phase = "idle"
    /\ job = NoJob
    /\ events = <<>>
    /\ export = NoExport
    /\ given = [mode |-> "text", R |-> <<>>]
    /\ parser = NoParser
    /\ procs = NoProcs
    /\ \E n \in 0..MaxLines : \E lines \in [1..n -> LineKinds] :
          out = JoinLines(lines)

(* Lines 351-359 and 399-401: nothing to export, the text is exported as   *)
(* it is, or the loop over its lines begins.                               *)
ExportBegin ==
    /\ phase = "idle"
    /\ IF Truthy(out) /\ IsBatchText(out)
       THEN /\ parser' = [NoParser EXCEPT !.lines = Split(out, NL), !.pos = 1]
            /\ phase' = "parsing"
            /\ UNCHANGED export
       ELSE /\ \E io \in IoOutcomes : export' = ExportHandler(out, io)
            /\ phase' = "exported"
            /\ UNCHANGED parser
    /\ UNCHANGED <<model, model_name, calls, job, events, out, given, procs>>

(* Lines 361-386: one turn of the loop.                                    *)
ParseTurn ==
    /\ phase = "parsing"
    /\ parser.pos <= Len(parser.lines)
    /\ LET line == parser.lines[parser.pos]
           st == ParseLine([results |-> parser.results,
                            current_file |-> parser.current_file], line)
       IN  parser' = [lines |-> parser.lines,
                      pos |-> parser.pos + 1,
                      results |-> st.results,
                      current_file |-> st.current_file,
                      last |-> [line |-> line,
                                results |-> parser.results,
                                current_file |-> parser.current_file]]
    /\ UNCHANGED <<model, model_name, calls, phase, job, events, out, export,
                   given, procs>>

(* Lines 388-398: after the last line, the rows are built from results and *)
(* handed to export_batch_results.                                         *)
ExportEnd ==
    /\ phase = "parsing"
    /\ parser.pos > Len(parser.lines)
    /\ LET df_data == [i \in DOMAIN parser.results |-> Row(parser.results[i])]
       IN  \E io \in IoOutcomes :
              export' = [class |-> "batch", rows |-> df_data, text |-> <<>>,
                         file |-> ExportBatchResults(FALSE, df_data, io)]
    /\ phase' = "exported"
    /\ UNCHANGED <<model, model_name, calls, job, events, out, given, parser, procs>>

NextParse == ExportBegin \/ ParseTurn \/ ExportEnd

SpecParse == InitParse /\ [][NextParse]_vars

----------------------------------------------------------------------------
(* SpecConc: callers of the core at the same time (Gradio runs each event  *)
(* handler of lines 403-416 in a thread of its own, and the core takes no  *)
(* lock).  A caller is a load_model_handler or a transcribe_audio call; it *)
(* takes the statements of load_model and transcribe_audio one at a time,  *)
(* and the statements of the callers interleave.  pc names the line the    *)
(* caller is about to execute.                                             *)

Caller(op, name) ==
    [op |-> op, name |-> name,
     pc |-> IF op = "transcribe" THEN "line 82" ELSE "line 61",
     built |-> NoModel,        \* the handle whisper.load_model returned
     failed |-> FALSE,         \* whisper.load_model raised
     invoked |-> FALSE,        \* self.model.transcribe was called
     used |-> NoModel]         \* the handle it was called on

InitConc ==
    /\ \E b \in BuildOutcomes :
          LET ld == LoadModel(NoModel, "base", "base", b)
          IN  model = ld.model /\ model_name = ld.model_name
    /\ calls = <<>>
    /\ phase = "idle"
    /\ job = NoJob
    /\ events = <<>>
    /\ out = <<>>
    /\ export = NoExport
    /\ given = NoneGiven
    /\ parser = NoParser
    /\ \E ops \in [1..MaxCallers -> {"load", "transcribe"}] :
       \E names \in [1..MaxCallers -> ModelIds] :
          procs = [p \in 1..MaxCallers |-> Caller(ops[p], names[p])]

Goto(p, pc) ==
    /\ procs' = [procs EXCEPT ![p].pc = pc]
    /\ UNCHANGED <<calls, phase, job, events, out, export, given, parser>>

(* transcribe_audio, lines 82-83: the test, then load_model or line 96.    *)
Line82(p) ==
    /\ procs[p].pc = "line 82"
    /\ Goto(p, IF model = NoModel \/ model_name # procs[p].name
               THEN "line 61" ELSE "line 96")
    /\ UNCHANGED <<model, model_name>>

(* load_model, line 61: the test; when it fails load_model returns         *)
(* "already loaded" (line 65).                                             *)
Line61(p) ==
    /\ procs[p].pc = "line 61"
    /\ Goto(p, IF NeedsLoad(model, model_name, procs[p].name) THEN "line 62"
               ELSE IF procs[p].op = "transcribe" THEN "line 96" ELSE "done")
    /\ UNCHANGED <<model, model_name>>

(* load_model, line 62: self.model_name = model_name.                      *)
Line62(p) ==
    /\ procs[p].pc = "line 62"
    /\ model_name' = procs[p].name
    /\ Goto(p, "line 63")
    /\ UNCHANGED model

(* load_model, line 63, right-hand side: whisper.load_model returns a      *)
(* handle or raises (lines 66-67 return the error status).                 *)
Line63Construct(p) ==
    /\ procs[p].pc = "line 63"
    /\ \E b \in BuildOutcomes :
          procs' = [procs EXCEPT
                      ![p].built = IF b.ok THEN Handle(procs[p].name) ELSE NoModel,
                      ![p].failed = ~b.ok,
                      ![p].pc = IF b.ok THEN "line 63 store"
                                ELSE IF procs[p].op = "transcribe" THEN "line 96"
                                ELSE "done"]
    /\ UNCHANGED <<model, model_name, calls, phase, job, events, out, export,
                   given, parser>>

(* load_model, line 63, the assignment: self.model = the handle.           *)
Line63Store(p) ==
    /\ procs[p].pc = "line 63 store"
    /\ model' = procs[p].built
    /\ Goto(p, IF procs[p].op = "transcribe" THEN "line 96" ELSE "done")
    /\ UNCHANGED model_name

(* transcribe_audio, line 96: self.model.transcribe(...) is called on the  *)
(* handle self.model holds at this moment; on None the attribute lookup    *)
(* raises and the except branch of line 112 returns.                       *)
Line96(p) ==
    /\ procs[p].pc = "line 96"
    /\ procs' = [procs EXCEPT ![p].invoked = model # NoModel,
                              ![p].used = model,
                              ![p].pc = "done"]
    /\ UNCHANGED <<model, model_name, calls, phase, job, events, out, export,
                   given, parser>>

NextConc ==
    \/ \E p \in 1..MaxCallers : Line82(p)
    \/ \E p \in 1..MaxCallers : Line61(p)
    \/ \E p \in 1..MaxCallers : Line62(p)
    \/ \E p \in 1..MaxCallers : Line63Construct(p)
    \/ \E p \in 1..MaxCallers : Line63Store(p)
    \/ \E p \in 1..MaxCallers : Line96(p)

SpecConc == InitConc /\ [][NextConc]_vars

----------------------------------------------------------------------------
(* Claims about the model cache and transcribe_audio, checked under Spec.  *)

(* The cache reports identifier X as loaded: a handle is present and the   *)
(* identifier recorded for it is X.                                        *)
Holds(c, X) == c.model.loaded /\ c.model_name = X

IsLoad(c) == c.op = "load"
IsTranscribe(c) == c.op = "transcribe"
Succeeded(c) == c.status.kind # "error"
Constructions(cs) == Cardinality({i \in DOMAIN cs : cs[i].built})

(* C1: from a cache that does not hold X, two load_model(X) calls in a    *)
(* row whose construction succeeds construct exactly once, the second      *)
(* answering "already loaded"; a following load_model(Y), Y # X, that      *)
(* succeeds constructs again, after which the active handle is the one     *)
(* built for Y and no longer the one built for X.                          *)
C1_IdempotentCache ==
    \A i \in 1..(Len(calls) - 1) :
        LET a == calls[i]
            b == calls[i + 1]
        IN  (/\ IsLoad(a) /\ IsLoad(b) /\ a.name = b.name
             /\ ~Holds(a.pre, a.name)
             /\ Succeeded(a) /\ Succeeded(b))
            => /\ Constructions(<<a, b>>) = 1
               /\ a.built /\ a.status.kind = "loaded"
               /\ ~b.built /\ b.status.kind = "already"
               /\ b.post.model = Handle(a.name)
               /\ \A j \in {i + 2} \cap DOMAIN calls :
                     LET c == calls[j]
                     IN  (IsLoad(c) /\ c.name # a.name /\ Succeeded(c))
                         => /\ c.built
                            /\ c.post.model = Handle(c.name)
                            /\ c.post.model # b.post.model
                            /\ c.post.model_name = c.name

C1_Witness ==
    /\ Len(calls) = 3
    /\ \A i \in 1..3 : IsLoad(calls[i]) /\ Succeeded(calls[i])
    /\ ~Holds(calls[1].pre, calls[1].name)
    /\ calls[1].pre.model.loaded
    /\ calls[2].name = calls[1].name
    /\ calls[3].name # calls[1].name
    /\ model = Handle(calls[3].name)

(* C2: a load_model(Y) whose construction fails returns a failure status   *)
(* carrying the error description and leaves the cache as it was: the      *)
(* active handle and the identifier recorded for it are unchanged, so the  *)
(* next load_model(Y) attempts construction again.                         *)
C2_ReplaceOnSuccess ==
    \A i \in DOMAIN calls :
        LET a == calls[i]
        IN  (IsLoad(a) /\ a.built /\ ~Succeeded(a))
            => /\ a.status.kind = "error" /\ a.status.msg = LoadErrorText
               /\ a.post = a.pre
               /\ \A j \in {i + 1} \cap DOMAIN calls :
                     (IsLoad(calls[j]) /\ calls[j].name = a.name) => calls[j].built

(* C3: a transcribe_audio call whose model load fails returns an empty    *)
(* transcription and a report that describes the load error, and does not  *)
(* invoke the recognizer.                                                  *)
C3_LoadFailureReported ==
    \A i \in DOMAIN calls :
        LET a == calls[i]
        IN  (IsTranscribe(a) /\ a.built /\ ~Succeeded(a))
            => /\ a.transcription = <<>>
               /\ Contains(a.details, a.status.msg)
               /\ ~a.invoked

(* C4: when the recognizer raises, transcribe_audio returns the empty     *)
(* transcription and the error report carrying the exception's message,    *)
(* nothing propagates to the caller, and the core keeps the handle it      *)
(* used (so a later call can succeed).                                     *)
C4_RecognitionFailureRecovered ==
    \A i \in DOMAIN calls :
        LET a == calls[i]
        IN  (IsTranscribe(a) /\ a.raised)
            => /\ a.transcription = <<>>
               /\ a.details = TranscriptionErrorPrefix \o a.msg
               /\ Contains(a.details, RecErrorText)
               /\ ~a.propagated
               /\ a.post.model = a.used /\ a.post.model.loaded

C4_Witness ==
    \E i \in 1..(Len(calls) - 1) :
        /\ IsTranscribe(calls[i]) /\ calls[i].raised
        /\ IsTranscribe(calls[i + 1]) /\ calls[i + 1].invoked
        /\ ~calls[i + 1].raised /\ Truthy(calls[i + 1].transcription)
        /\ calls[i + 1].name = calls[i].name

----------------------------------------------------------------------------
(* Claims about transcribe_handler, checked under SpecBatch.               *)

IsFileLine(line) == StartsWith(line, FILE_MARK)
IsDelimiterLine(line) == StartsWith(line, Delimiter)
FileLineNames(text) ==
    LET fl == SelectSeq(Split(text, NL), IsFileLine)
    IN  [i \in DOMAIN fl |-> Strip(DropFirst(fl[i], 5))]

Recognized(r) == r.invoked /\ ~r.raised
FileJob == job.kind \in {"single", "multi"}
AnyJob == job.kind \in {"mic", "single", "multi"}

(* The file names of the items of the job whose recognition succeeded, in  *)
(* input order.                                                            *)
RecognizedNames ==
    LET idx == SelectSeq([i \in DOMAIN job.items |-> i],
                         LAMBDA i : Recognized(job.items[i]))
    IN  [k \in DOMAIN idx |-> Basename(job.files[idx[k]])]

(* C5: a job over a list of files runs every item, and the FILE: sections *)
(* of its report are exactly the items whose recognition succeeded         *)
(* (whatever the text, the empty text included), in input order.           *)
C5_PartialFailureContainment ==
    FileJob =>
        /\ Len(job.items) = Len(job.files)
        /\ \A i \in DOMAIN job.files :
              \E k \in DOMAIN events : events[k].type = "begin" /\ events[k].item = i
        /\ FileLineNames(out) = RecognizedNames

(* The summary line states as many items as FILE: lines follow, and every  *)
(* FILE: line is followed by a delimiter line before the next FILE: line.  *)
ReportShape(text) ==
    LET lines == Split(text, NL)
        files == {i \in DOMAIN lines : IsFileLine(lines[i])}
    IN  /\ lines[1] = SummaryPrefix \o <<SP>> \o FormatInt(Cardinality(files))
                      \o <<SP, "files successfully">>
        /\ \A i \in files :
              \E d \in (i + 1)..Len(lines) :
                 /\ IsDelimiterLine(lines[d])
                 /\ \A m \in (i + 1)..d : m \notin files

(* C6 as claimed: the report of every non-empty list of files, a list of  *)
(* one file included, has the batch shape.                                 *)
C6_BatchShapeAnyList == FileJob => ReportShape(out)

HasFileLine(text) == \E i \in DOMAIN Split(text, NL) : IsFileLine(Split(text, NL)[i])

(* C6 as amended: the report of a list of two or more files, none of      *)
(* whose transcriptions holds a line beginning with FILE:, begins with a   *)
(* summary line whose count is the number of FILE: sections that follow,   *)
(* each terminated by the delimiter line.                                  *)
C6_BatchShape ==
    (/\ job.kind = "multi"
     /\ \A i \in DOMAIN job.items : ~HasFileLine(job.items[i].transcription))
    => ReportShape(out)

C6_Witness ==
    /\ job.kind = "multi"
    /\ \A i \in DOMAIN job.items : ~HasFileLine(job.items[i].transcription)
    /\ Len(job.results) = 2
    /\ Len(job.items) = 3
    /\ job.items[2].raised

(* The report of a list of n files in which every item fails: the          *)
(* construction fails for the first j items, the recognizer raises.        *)
AllFailedReport(n, j) ==
    TranscribeHandler(model, model_name, Uploads(n), FALSE, job.language, job.name,
                      [i \in 1..n |-> CHOOSE b \in BuildOutcomes : b.ok = (i > j)],
                      [i \in 1..n |-> Raise(RecErrorText)], FALSE).out

(* C7: the report of an empty list of files is an error report with no    *)
(* FILE: marker, and no report of a non-empty list in which every item     *)
(* failed is the same text.                                                *)
C7_EmptyBatchDistinct ==
    /\ (job.kind \notin {"none", "mic"} /\ job.files = <<>>)
          => /\ StartsWith(out, <<ErrMark>>)
             /\ ~Contains(out, FILE_MARK)
             /\ \A n \in 1..MaxFiles : \A j \in {0, n} : out # AllFailedReport(n, j)
    /\ (FileJob /\ \A i \in DOMAIN job.items : ~Recognized(job.items[i]))
          => out # TranscribeHandler(model, model_name, <<>>, FALSE, job.language,
                                     job.name, <<>>, <<>>, FALSE).out

C7_Witness ==
    /\ phase = "reported"
    /\ job.kind = "empty"
    /\ out = NoInputText
    /\ AllFailedReport(2, 0) = SummaryLine(0)

IsProgress(e) == e.type = "progress"
Notifications == SelectSeq(events, IsProgress)

(* Item i is announced before its recognition begins.                      *)
AnnouncedBefore ==
    \A k \in DOMAIN events :
        events[k].type \in {"begin", "recognize"}
        => \E p \in 1..(k - 1) :
              IsProgress(events[p]) /\ events[p].done = events[k].item - 1

(* A notification that announces an item: work is still ahead.             *)
Announces(e) == IsProgress(e) /\ e.done < e.total
Announcements == SelectSeq(events, Announces)

(* One notification per item, in increasing item order.                    *)
OnePerItemInOrder ==
    /\ Len(Notifications) = Len(job.items)
    /\ \A i \in DOMAIN Notifications :
          Notifications[i] = Progress(i - 1, Len(job.items))

(* Every notification is followed at once by the item it announces.        *)
NoneAfter ==
    \A k \in DOMAIN events :
        IsProgress(events[k])
        => /\ k < Len(events)
           /\ events[k + 1].type = "begin"
           /\ events[k + 1].item = events[k].done + 1

(* C8 as claimed: in any job the sink is notified for item i before the   *)
(* recognizer runs on item i, once per item in increasing order, and never *)
(* after an item has finished unless the next item is announced.           *)
C8_ProgressOrderAnyJob == AnyJob => AnnouncedBefore /\ OnePerItemInOrder /\ NoneAfter

(* C8 as amended: in any job item i is announced before the recognizer    *)
(* runs on it, the announcements come once per item in increasing order,   *)
(* each at once before its item; the only other notification is one of     *)
(* completion after the last item has finished, which a job over a single  *)
(* item (one file, or a recording) always issues.                          *)
C8_ProgressOrder ==
    AnyJob =>
        /\ AnnouncedBefore
        /\ Len(Announcements) = Len(job.items)
        /\ \A i \in DOMAIN Announcements :
              Announcements[i] = Progress(i - 1, Len(job.items))
        /\ \A k \in DOMAIN events :
              IsProgress(events[k])
              => IF Announces(events[k])
                 THEN /\ k < Len(events)
                      /\ events[k + 1].type = "begin"
                      /\ events[k + 1].item = events[k].done + 1
                 ELSE /\ k = Len(events)
                      /\ events[k] = Progress(Len(job.items), Len(job.items))
                      /\ events[k - 1] = Step("end", Len(job.items), NoModel, NoOptions)
        /\ job.kind \in {"mic", "single"} => events[Len(events)] = Progress(1, 1)

C8_Witness ==
    /\ job.kind = "multi"
    /\ Len(job.items) = 3
    /\ \E k \in DOMAIN events : events[k].type = "recognize" /\ events[k].item = 3
    /\ ~job.items[1].invoked

----------------------------------------------------------------------------
(* Claims about the formatter and the parser, checked under SpecCodec.     *)

DurationText(r) == IF r.hasSegments THEN Format2f(r.end) ELSE <<>>

(* C9: for a list R of results whose texts hold no delimiter text, the    *)
(* records parsed from format_batch(R) are one per element of R, in        *)
(* order, with the element's file name, language code, duration number     *)
(* and text (up to trailing whitespace).                                   *)
C9_RoundTrip ==
    (/\ phase = "exported"
     /\ given.mode = "batch"
     /\ \A i \in DOMAIN given.R : ~Contains(given.R[i].text, Delimiter))
    => /\ Len(export.rows) = Len(given.R)
       /\ \A i \in DOMAIN given.R :
             /\ export.rows[i].filename = given.R[i].filename
             /\ export.rows[i].language = given.R[i].language
             /\ export.rows[i].duration = DurationText(given.R[i])
             /\ RStrip(export.rows[i].transcription) = RStrip(given.R[i].text)

(* C10: the text format_single renders of a result without a file name    *)
(* is exported as a single report (plain text), never as a batch.          *)
C10_SingleClassifiedSingle ==
    (phase = "exported" /\ given.mode = "single") => export.class = "single"


(* C18: after any sequence of load_model and transcribe_audio calls, some  *)
(* of whose constructions fail, every recognizer invocation made by a      *)
(* transcribe_audio call runs on a handle built for the identifier given   *)
(* to that call.                                                           *)
C18_HandleMatchesIdentifier ==
    \A i \in DOMAIN calls :
        (IsTranscribe(calls[i]) /\ calls[i].invoked)
        => calls[i].used = Handle(calls[i].name)

(* The recognizer invocations of the job, as notified in events.           *)
Invocations ==
    {k \in DOMAIN events : events[k].type = "recognize"}

(* C12: in a job whose language selector is absent or "Auto-detect" every  *)
(* recognizer invocation is made with no language option at all; in a job  *)
(* with an explicit language code every invocation receives exactly that   *)
(* code.                                                                   *)
C12_LanguageConstraint ==
    \A k \in Invocations :
        IF job.language \in {NoLanguage, AutoDetect}
        THEN ~events[k].options.hasLanguage
        ELSE events[k].options.hasLanguage /\ events[k].options.language = job.language

C12_Witness ==
    /\ job.language = AutoDetect
    /\ job.kind = "multi"
    /\ Cardinality(Invocations) >= 2
    /\ \A k \in Invocations : ~events[k].options.hasLanguage

----------------------------------------------------------------------------
(* Claims about the export functions, checked under SpecExport.            *)

NoDataGiven ==
    \/ given.mode = "transcription" /\ out = <<>>
    \/ given.mode = "batch_results" /\ given.R = <<>>
    \/ given.mode = "None"

(* C11: an export call given no data (export_transcription of the empty    *)
(* text, export_batch_results of the empty list) returns None and makes no *)
(* file and no directory.                                                  *)
C11_ExportNoOp ==
    (phase = "exported" /\ NoDataGiven)
    => /\ export.file.returned = "none"
       /\ export.file.dirs = 0
       /\ export.file.files = 0

----------------------------------------------------------------------------
(* Claims about the parser of export_handler, checked under SpecParse.     *)

(* A turn of the loop has been taken: parser.last is the line it read and  *)
(* the parser state it started from.                                       *)
TurnTaken == phase \in {"parsing", "exported"} /\ parser.pos > 1
ParseDone == phase = "exported" /\ export.class = "batch"

IsLabelLine(line) ==
    StartsWith(line, LanguageLabel) \/ StartsWith(line, DurationLabel)
IsSummaryLine(line) == StartsWith(line, SummaryPrefix)

(* A record is open when a FILE: line started it and no delimiter line or  *)
(* later FILE: line has closed it.                                         *)
Open(d) == "filename" \in d.keys

(* A line that is none of the lines the parser gives a meaning to.         *)
IsFreeText(line) ==
    /\ Truthy(Strip(line))
    /\ ~IsFileLine(line)
    /\ ~IsLabelLine(line)
    /\ ~IsSummaryLine(line)
    /\ ~IsDelimiterLine(line)

(* C13: when the input ends while a record is open, that record is emitted *)
(* after the records already emitted, with the fields collected so far.    *)
C13_EndOfInputFlush ==
    (ParseDone /\ Open(parser.current_file))
    => /\ Len(export.rows) = Len(parser.results) + 1
       /\ export.rows[Len(export.rows)] = Row(parser.current_file)

(* C14: a FILE: line read while a record is open appends the open record,  *)
(* with every field collected so far, to the results, and starts a record  *)
(* that holds the text after the marker as its file name and no field of   *)
(* the earlier record.                                                     *)
C14_NestedFileLine ==
    (TurnTaken /\ IsFileLine(parser.last.line) /\ Open(parser.last.current_file))
    => /\ parser.results = Append(parser.last.results, parser.last.current_file)
       /\ parser.current_file.keys = {"filename"}
       /\ parser.current_file.filename = Strip(DropFirst(parser.last.line, 5))
       /\ parser.current_file.language = <<>>
       /\ parser.current_file.duration = <<>>
       /\ parser.current_file.transcription = <<>>

C14_Witness ==
    /\ TurnTaken
    /\ parser.last.line = FileLineB
    /\ parser.last.current_file.filename = <<"a", ".", "wav">>
    /\ parser.last.current_file.keys = {"filename", "language", "transcription"}
    /\ Len(parser.results) = 1
    /\ parser.results[1].language = Stars \o <<SP, "e", "n">>
    /\ parser.current_file.filename = <<"b", ".", "wav">>
    /\ parser.current_file.language = <<>>

RowFields == {"filename", "transcription", "language", "duration"}

(* C15: a delimiter line read while a record is open emits the record,     *)
(* whichever of language, duration and transcription are unset; an unset   *)
(* field is the empty text in the row of the record; the parser is then    *)
(* outside any record, and a free-text line read outside any record        *)
(* changes neither the results nor the parser state.                       *)
C15_DelimiterWithMissingFields ==
    /\ (TurnTaken /\ IsDelimiterLine(parser.last.line)
           /\ Open(parser.last.current_file))
       => /\ Len(parser.results) = Len(parser.last.results) + 1
          /\ SubSeq(parser.results, 1, Len(parser.last.results)) = parser.last.results
          /\ LET e == parser.results[Len(parser.results)]
             IN  /\ Row(e) = Row(parser.last.current_file)
                 /\ \A f \in RowFields \ parser.last.current_file.keys :
                        Row(e)[f] = <<>>
          /\ parser.current_file = EmptyDict
    /\ (TurnTaken /\ IsFreeText(parser.last.line)
           /\ parser.last.current_file = EmptyDict)
       => /\ parser.results = parser.last.results
          /\ parser.current_file = EmptyDict

C15_Witness ==
    /\ TurnTaken
    /\ parser.pos = 4
    /\ parser.lines[1] = FileLineA
    /\ parser.lines[2] = Delimiter
    /\ parser.last.line = TextLine
    /\ Len(parser.results) = 1
    /\ parser.results[1].keys = {"filename", "transcription"}
    /\ Row(parser.results[1]).language = <<>>
    /\ Row(parser.results[1]).duration = <<>>
    /\ parser.current_file = EmptyDict

(* C16: while a record is open, every non-empty line that is not a FILE:   *)
(* line, a Detected Language or Duration line, a summary line or a         *)
(* delimiter line is appended to the record's transcription text, lines    *)
(* that begin with "**" without being one of the two labels included; with *)
(* no record open such a line changes nothing.                             *)
C16_FreeTextCollected ==
    (TurnTaken /\ IsFreeText(parser.last.line))
    => /\ parser.results = parser.last.results
       /\ IF Open(parser.last.current_file)
          THEN parser.current_file =
                  Put(parser.last.current_file, "transcription",
                      Get(parser.last.current_file, "transcription")
                      \o parser.last.line \o <<NL>>)
          ELSE parser.current_file = parser.last.current_file

(* C17: a non-empty text is parsed as a batch exactly when one of its      *)
(* lines begins with FILE: and one of its lines begins with the delimiter. *)
C17_BatchClassification ==
    (phase = "exported" /\ Truthy(out))
    => LET lines == Split(out, NL)
       IN  export.class = "batch"
           <=> /\ \E i \in DOMAIN lines : IsFileLine(lines[i])
               /\ \E i \in DOMAIN lines : IsDelimiterLine(lines[i])

(* C19: every emitted record was opened by a FILE: line, so there are at   *)
(* most as many emitted records as FILE: lines; a Detected Language or     *)
(* Duration line read while no record is open creates no record.           *)
C19_RecordsNeedFileLine ==
    /\ ParseDone
       => /\ Len(export.rows)
               <= Len(SelectSeq(parser.lines, IsFileLine))
          /\ \A i \in DOMAIN parser.results : Open(parser.results[i])
    /\ (TurnTaken /\ IsLabelLine(parser.last.line)
           /\ parser.last.current_file = EmptyDict)
       => parser.current_file = EmptyDict

----------------------------------------------------------------------------
(* Claims about callers at the same time, checked under SpecConc.          *)

NoConstructionFailed == \A p \in DOMAIN procs : ~procs[p].failed

(* C20: when callers of the core interleave, and no construction fails,    *)
(* the recognizer invocation of each transcribe_audio call runs on a       *)
(* handle built for the identifier given to that call.                     *)
C20_OwnHandleWhenInterleaved ==
    NoConstructionFailed
    => \A p \in DOMAIN procs :
           (procs[p].op = "transcribe" /\ procs[p].invoked)
           => procs[p].used = Handle(procs[p].name)

============================================================================
